---- MODULE Spec2Model ----
(***************************************************************************)
(* Appointment scheduling engine: AppointmentService over the Postgres     *)
(* appointment repository and the calendar service.  Every await of the    *)
(* service is one step of an invocation; store statements are atomic.      *)
(* Times are minutes.                                                      *)
(***************************************************************************)
EXTENDS Integers, FiniteSets, Sequences, TLC

(***************************************************************************)
(* Bounds of the model.                                                    *)
(***************************************************************************)
MaxAppointments == 3
MaxNow == 1
MaxSlot == 2
SlotMinutes == 30

(***************************************************************************)
(* Program constants.                                                      *)
(***************************************************************************)
CancellationLeadHours == 2
MinutesPerHour == 60

NoId == 0
NoTime == 0
Undefined == "undefined"

Procs == {"p1", "p2"}
ProcIndex(p) == IF p = "p1" THEN 1 ELSE 2

FirstSlot == CancellationLeadHours * MinutesPerHour
Times == {FirstSlot + k * SlotMinutes : k \in 0..MaxSlot}

AppointmentType == {"consultation", "follow_up"}
AppointmentStatus == {"scheduled", "confirmed", "cancelled", "completed"}
ActiveStatuses == {"scheduled", "confirmed"}

Persons ==
  { [firstName |-> "John", email |-> "john@example.com", phoneNumber |-> Undefined],
    [firstName |-> "Jane", email |-> Undefined, phoneNumber |-> "+0987654321"] }

TimeSlotUnavailable == "TIME_SLOT_UNAVAILABLE"
NotFound == "NOT_FOUND"
AppointmentCancellation == "APPOINTMENT_CANCELLATION_ERROR"
CalendarEventFailed == "Failed to create calendar event"
UniqueViolation == "23505"
CheckViolation == "23514"
ConnectionError == "ConnectionError"
TypeError == "TypeError"

VARIABLES store, stamps, nextId, calendar, nextEventId, now, inv

vars == <<store, stamps, nextId, calendar, nextEventId, now, inv>>

(***************************************************************************)
(* Entities and requests.                                                  *)
(***************************************************************************)
NoAppointment ==
  [id |-> NoId, firstName |-> Undefined, email |-> Undefined, phoneNumber |-> Undefined,
   startAt |-> NoTime, endAt |-> NoTime, type |-> Undefined, status |-> Undefined,
   calendarEventId |-> NoId]

NoData ==
  [firstName |-> Undefined, email |-> Undefined, phoneNumber |-> Undefined,
   startAt |-> NoTime, endAt |-> NoTime, type |-> Undefined]

\* The requesters a ScheduleRequest can name: phoneNumber is any string when
\* email is there, the empty one included.
Callers ==
  Persons \cup {[firstName |-> "John", email |-> "john@example.com", phoneNumber |-> ""]}

\* ScheduleRequestSchema: endAt after startAt, a contact present.
ScheduleRequests ==
  { r \in [firstName : {p.firstName : p \in Callers}, email : {p.email : p \in Callers},
            phoneNumber : {p.phoneNumber : p \in Callers}, startAt : Times, endAt : Times,
            type : {"consultation"}] :
      /\ r.endAt > r.startAt
      /\ \E p \in Callers : /\ r.firstName = p.firstName
                            /\ r.email = p.email
                            /\ r.phoneNumber = p.phoneNumber }

\* Partial<ScheduleRequest> as editAppointment receives it: a new interval, only a
\* new start, only a new end, or only a new type; firstName and email are over-posted.
EditRequests ==
  { r \in [firstName : {"Mallory"}, email : {"mallory@example.com"},
           phoneNumber : {Undefined}, startAt : Times \cup {NoTime},
           endAt : Times \cup {NoTime}, type : {Undefined, "follow_up"}] :
      /\ (r.startAt # NoTime /\ r.endAt # NoTime) => r.endAt > r.startAt
      /\ (r.type = "follow_up") <=> (r.startAt = NoTime /\ r.endAt = NoTime) }

\* new AppointmentEntity(data) for a ScheduleRequest
EntityFromRequest(data) ==
  [id |-> NoId, firstName |-> data.firstName, email |-> data.email,
   phoneNumber |-> data.phoneNumber, startAt |-> data.startAt, endAt |-> data.endAt,
   type |-> data.type, status |-> "scheduled", calendarEventId |-> NoId]

SetCalendarEventIdToOwnId(appointment, eventId) ==
  [appointment EXCEPT !.calendarEventId = appointment.id]

\* AppointmentEntity.setCalendarEventId
SetCalendarEventId(appointment, eventId) ==
  [appointment EXCEPT !.calendarEventId = eventId]

(***************************************************************************)
(* Store: the appointments table and the repository's statements.          *)
(***************************************************************************)
OverlapsInclusive(aStart, aEnd, bStart, bEnd) == aStart <= bEnd /\ aEnd >= bStart

\* start_at < $1 AND end_at > $2, with $1 the end and $2 the start asked for
Overlaps(aStart, aEnd, bStart, bEnd) == aStart < bEnd /\ aEnd > bStart

IsActive(status) == status \in ActiveStatuses

\* SELECT ... WHERE start_at < $1 AND end_at > $2 AND status IN (...) [AND id != $3]
GetConflictingAppointments(st, startAt, endAt, excludeId) ==
  { i \in DOMAIN st :
      /\ Overlaps(st[i].startAt, st[i].endAt, startAt, endAt)
      /\ IsActive(st[i].status)
      /\ (excludeId # NoId => i # excludeId) }

\* PostgresAppointmentRepository.isAvailable: no conflicting appointment
IsAvailable(st, startAt, endAt, excludeId) ==
  GetConflictingAppointments(st, startAt, endAt, excludeId) = {}

\* SupabaseAppointmentRepository.getConflictingAppointments
SupabaseGetConflictingAppointments(st, startAt, endAt, excludeId) ==
  { i \in DOMAIN st :
      /\ st[i].startAt < endAt
      /\ st[i].endAt > startAt
      /\ st[i].status \in {"scheduled", "confirmed"}
      /\ (excludeId # NoId => i # excludeId) }

\* SupabaseAppointmentRepository.isAvailable: counts the rows that overlap,
\* of any status
SupabaseIsAvailable(st, startAt, endAt, excludeId) ==
  Cardinality({ i \in DOMAIN st :
                  /\ st[i].startAt < endAt
                  /\ st[i].endAt > startAt
                  /\ (excludeId # NoId => i # excludeId) }) = 0

\* appointments_unique_slot unique (start_at, end_at)
UniqueSlotTaken(st, id, startAt, endAt) ==
  \E j \in DOMAIN st \ {id} : st[j].startAt = startAt /\ st[j].endAt = endAt

ConstraintErrorWithoutTimeRange(st, id, row) ==
  IF row.email = Undefined /\ row.phoneNumber = Undefined THEN CheckViolation
  ELSE IF UniqueSlotTaken(st, id, row.startAt, row.endAt) THEN UniqueViolation
  ELSE "none"

\* Constraint the table raises for a row, "none" when it accepts it.
ConstraintError(st, id, row) ==
  IF ~(row.endAt > row.startAt) THEN CheckViolation
  ELSE IF row.email = Undefined /\ row.phoneNumber = Undefined THEN CheckViolation
  ELSE IF UniqueSlotTaken(st, id, row.startAt, row.endAt) THEN UniqueViolation
  ELSE "none"

\* value || null into the column and column || undefined out of it: an empty
\* string comes back absent.
OrUndefined(value) == IF value = "" THEN Undefined ELSE value

InsertedRowWithoutName(id, appointment) ==
  [appointment EXCEPT !.id = id, !.status = "scheduled", !.firstName = Undefined]

\* The row INSERT writes, as mapRowToEntity reads it: status 'scheduled', the
\* entity's calendar_event_id, email and phone_number null when falsy.
InsertedRow(id, appointment) ==
  [appointment EXCEPT !.id = id, !.status = "scheduled",
                      !.email = OrUndefined(@), !.phoneNumber = OrUndefined(@)]

\* The row SupabaseAppointmentRepository.create inserts: status and
\* calendar_event_id as the entity has them.
SupabaseInsertedRow(id, appointment) == [appointment EXCEPT !.id = id]

CreateError(st, id, appointment) == ConstraintError(st, id, InsertedRow(id, appointment))

\* UPDATE ... SET start_at, end_at, type, notes, calendar_event_id, status, updated_at
UpdatedRow(old, appointment) ==
  [old EXCEPT !.startAt = appointment.startAt, !.endAt = appointment.endAt,
              !.type = appointment.type, !.calendarEventId = appointment.calendarEventId,
              !.status = appointment.status]

UpdateError(st, id, appointment) ==
  IF id \notin DOMAIN st THEN TypeError
  ELSE ConstraintError(st, id, UpdatedRow(st[id], appointment))

\* updated_at of a row no UPDATE has written (null)
NeverUpdated == -1

\* created_at default now(), updated_at left null by INSERT
StampOfInsert(time) == [createdAt |-> time, updatedAt |-> NeverUpdated]

StampOfUpdateKept(stamp, time) == stamp

\* UPDATE ... SET ..., updated_at = $7, with new Date() for $7
StampOfUpdate(stamp, time) == [stamp EXCEPT !.updatedAt = time]

\* SELECT * FROM appointments WHERE id = $1: the row, or null (NoAppointment)
FindById(st, id) == IF id \in DOMAIN st THEN st[id] ELSE NoAppointment

DeleteReturnsTrue(st, id) == TRUE

\* result.rowCount !== null && result.rowCount > 0
DeleteReturns(st, id) == id \in DOMAIN st

DeleteNothing(st, id) == st

\* DELETE FROM appointments WHERE id = $1
DeleteRow(st, id) == [i \in DOMAIN st \ {id} |-> st[i]]

(***************************************************************************)
(* Invocations.                                                            *)
(***************************************************************************)
Idle ==
  [pc |-> "idle", op |-> "none", data |-> NoData, appointmentId |-> NoId,
   appointment |-> NoAppointment, outcome |-> "pending", message |-> "none",
   calendarCall |-> "none", eventId |-> NoId, rollback |-> "none",
   dbFault |-> FALSE, validatedAt |-> NoTime, contact |-> Undefined, result |-> <<>>,
   dateStr |-> NoTime, bookedSlots |-> {}, available |-> Undefined]

Set(p, r) == inv' = [inv EXCEPT ![p] = r]

\* The invocation has run to its return or throw: its outcome is fixed, and of its
\* locals only what it hands to the caller is kept.
Finish(r, outcome) ==
  [r EXCEPT !.pc = "done", !.outcome = outcome, !.data = NoData,
            !.appointment = NoAppointment]

(***************************************************************************)
(* Initial states: the table and the calendar as earlier, completed        *)
(* bookings left them.  A booked row carries the event id its calendar     *)
(* event got; a cancelled booking's event is deleted.                      *)
(***************************************************************************)
John == [firstName |-> "John", email |-> "john@example.com", phoneNumber |-> Undefined]
Jane == [firstName |-> "Jane", email |-> Undefined, phoneNumber |-> "+0987654321"]

Booked(id, person, startAt, endAt, status) ==
  [id |-> id, firstName |-> person.firstName, email |-> person.email,
   phoneNumber |-> person.phoneNumber, startAt |-> startAt, endAt |-> endAt,
   type |-> "consultation", status |-> status, calendarEventId |-> id]

EmptyStore == [i \in {} |-> NoAppointment]

InitialStores ==
  { EmptyStore,
    1 :> Booked(1, John, FirstSlot, FirstSlot + SlotMinutes, "scheduled"),
    (1 :> Booked(1, John, FirstSlot, FirstSlot + SlotMinutes, "scheduled"))
      @@ (2 :> Booked(2, Jane, FirstSlot + SlotMinutes, FirstSlot + 2 * SlotMinutes,
                      "confirmed")),
    (1 :> Booked(1, John, FirstSlot, FirstSlot + SlotMinutes, "cancelled"))
      @@ (2 :> Booked(2, Jane, FirstSlot + SlotMinutes, FirstSlot + 2 * SlotMinutes,
                      "scheduled")),
    1 :> Booked(1, Jane, FirstSlot, FirstSlot + SlotMinutes, "completed"),
    (1 :> Booked(1, John, FirstSlot, FirstSlot + 2 * SlotMinutes, "cancelled"))
      @@ (2 :> Booked(2, Jane, FirstSlot + SlotMinutes, FirstSlot + 2 * SlotMinutes,
                      "scheduled")) }

Init ==
  /\ store \in InitialStores
  /\ stamps = [i \in DOMAIN store |-> StampOfUpdate(StampOfInsert(0), 0)]
  /\ nextId = Cardinality(DOMAIN store) + 1
  /\ calendar = {store[i].calendarEventId : i \in {j \in DOMAIN store :
                                                    store[j].status # "cancelled"}}
  /\ nextEventId = Cardinality(DOMAIN store) + 1
  /\ now = 0
  /\ inv = [p \in Procs |-> Idle]

\* Invocation p is about to take the step named label.
At(p, label) == inv[p].pc = label

(***************************************************************************)
(* Environment: the clock.  validateAppointmentCanBeCancelled decides by   *)
(* it, so time passes where that reading observes it; an INSERT or UPDATE  *)
(* stamps the row with the time it runs at.                                *)
(***************************************************************************)
Tick ==
  /\ \E p \in Procs : At(p, "x_validate")
  /\ now < MaxNow
  /\ now' = now + 1
  /\ UNCHANGED <<store, stamps, nextId, calendar, nextEventId, inv>>

\* Each invocation slot serves one request; requests take the slots in order.
Free(p) ==
  /\ At(p, "idle")
  /\ \A q \in Procs : inv[q].pc = "idle" => ProcIndex(p) <= ProcIndex(q)

\* Identifiers a caller may name: those of the records, and one no record has yet.
KnownIds == (DOMAIN store \cup {nextId}) \cap 1..MaxAppointments

\* The error classes handleApiError answers, by their codes.
HandledErrors ==
  {"VALIDATION_ERROR", "CONFLICT_ERROR", NotFound, AppointmentCancellation,
   TimeSlotUnavailable, "PAST_DATE_ERROR"}

\* handleApiError and withErrorHandling: a structured reply with the error's
\* code, or the error thrown on for none of these classes.
HandleApiError(error) ==
  IF error \in HandledErrors
  THEN [handled |-> TRUE, success |-> FALSE, code |-> error]
  ELSE [handled |-> FALSE, success |-> FALSE, code |-> "rethrown"]

\* The outcome reaches the caller.
Return(p) ==
  /\ inv[p].pc = "done"
  /\ Set(p, [Idle EXCEPT !.pc = "returned"])
  /\ UNCHANGED <<store, stamps, nextId, calendar, nextEventId, now>>


(***************************************************************************)
(* AppointmentService.createAppointment                                    *)
(***************************************************************************)
SamePersonConflictByEmail(st, conflicts, email, phoneNumber) ==
  \E i \in conflicts : email \notin {Undefined, ""} /\ st[i].email = email

\* lines 33-36 and 94-97: a conflicting appointment with the requester's email or phone
SamePersonConflict(st, conflicts, email, phoneNumber) ==
  \E i \in conflicts :
    \/ email \notin {Undefined, ""} /\ st[i].email = email
    \/ phoneNumber \notin {Undefined, ""} /\ st[i].phoneNumber = phoneNumber

ConflictMessage(st, conflicts, email, phoneNumber) ==
  IF SamePersonConflict(st, conflicts, email, phoneNumber)
  THEN "You already have an appointment" ELSE "already booked"

StartCreate(p, data) ==
  /\ Free(p)
  /\ nextId + Cardinality({q \in Procs : inv[q].pc \in {"c_check", "c_insert"}})
       <= MaxAppointments
  /\ Set(p, [Idle EXCEPT !.pc = "c_check", !.op = "create", !.data = data])
  /\ UNCHANGED <<store, stamps, nextId, calendar, nextEventId, now>>

\* lines 30-50: the conflict pre-check
CreateCheck(p) ==
  LET r == inv[p]
      conflicts == GetConflictingAppointments(store, r.data.startAt, r.data.endAt, NoId)
  IN /\ At(p, "c_check")
     /\ IF conflicts # {}
        THEN Set(p, [Finish(r, TimeSlotUnavailable) EXCEPT
                       !.message = ConflictMessage(store, conflicts, r.data.email,
                                                   r.data.phoneNumber)])
        ELSE Set(p, [r EXCEPT !.pc = "c_insert",
                              !.appointment = EntityFromRequest(r.data)])
     /\ UNCHANGED <<store, stamps, nextId, calendar, nextEventId, now>>

AfterCreateIgnoringError(r, err) == [r EXCEPT !.pc = "c_calendar"]

\* What createAppointment does with the outcome of repository.create
AfterCreate(r, err) ==
  IF err = "none" THEN [r EXCEPT !.pc = "c_calendar"] ELSE Finish(r, err)

\* line 53: repository.create
CreateInsert(p) ==
  LET r == inv[p]
  IN /\ At(p, "c_insert")
     /\ \E fault \in BOOLEAN :
          LET err == IF fault THEN ConnectionError
                     ELSE CreateError(store, nextId, r.appointment)
              r1 == [r EXCEPT !.dbFault = fault]
          IN IF err = "none"
             THEN /\ store' = store @@ (nextId :> InsertedRow(nextId, r.appointment))
                  /\ stamps' = stamps @@ (nextId :> StampOfInsert(now))
                  /\ nextId' = nextId + 1
                  /\ Set(p, AfterCreate([r1 EXCEPT !.appointmentId = nextId,
                                           !.appointment =
                                             InsertedRow(nextId, r.appointment)], err))
             ELSE /\ Set(p, AfterCreate(r1, err))
                  /\ UNCHANGED <<store, stamps, nextId>>
     /\ UNCHANGED <<calendar, nextEventId, now>>

\* line 64: calendarService.createCalendarEvent
CreateCalendarEvent(p) ==
  LET r == inv[p]
  IN /\ At(p, "c_calendar")
     /\ \/ /\ calendar' = calendar \cup {nextEventId}
           /\ nextEventId' = nextEventId + 1
           /\ Set(p, [r EXCEPT !.pc = "c_attach", !.calendarCall = "ok",
                               !.eventId = nextEventId,
                               !.appointment = SetCalendarEventId(r.appointment, nextEventId)])
        \/ /\ Set(p, [r EXCEPT !.pc = "c_rollback", !.calendarCall = "failed"])
           /\ UNCHANGED <<calendar, nextEventId>>
     /\ UNCHANGED <<store, stamps, nextId, now>>

\* line 68: repository.update attaching the event id; a throw enters the catch
CreateAttach(p) ==
  LET r == inv[p]
      id == r.appointment.id
  IN /\ At(p, "c_attach")
     /\ \E fault \in BOOLEAN :
          LET err == IF fault THEN ConnectionError ELSE UpdateError(store, id, r.appointment)
          IN IF err = "none"
             THEN /\ store' = [store EXCEPT ![id] = UpdatedRow(store[id], r.appointment)]
                  /\ stamps' = [stamps EXCEPT ![id] = StampOfUpdate(@, now)]
                  /\ Set(p, Finish(r, "ok"))
             ELSE /\ Set(p, [r EXCEPT !.pc = "c_rollback", !.dbFault = fault])
                  /\ UNCHANGED <<store, stamps>>
     /\ UNCHANGED <<nextId, calendar, nextEventId, now>>

RollbackOutcomeOfDelete(deleteError) ==
  IF deleteError = "none" THEN CalendarEventFailed ELSE deleteError

\* line 79: the error the catch block throws, whatever the delete did
RollbackOutcome(deleteError) == CalendarEventFailed

\* lines 71-80: compensating delete, then the calendar failure is thrown
CreateRollback(p) ==
  LET r == inv[p]
      id == r.appointment.id
  IN /\ At(p, "c_rollback")
     /\ \/ /\ store' = DeleteRow(store, id)
           /\ stamps' = DeleteRow(stamps, id)
           /\ Set(p, [Finish(r, RollbackOutcome("none")) EXCEPT !.rollback = "deleted"])
        \/ /\ UNCHANGED <<store, stamps>>
           /\ Set(p, [Finish(r, RollbackOutcome(ConnectionError)) EXCEPT
                        !.rollback = "failed"])
     /\ UNCHANGED <<nextId, calendar, nextEventId, now>>

Create(p) ==
  \/ \E data \in ScheduleRequests : StartCreate(p, data)
  \/ CreateCheck(p)
  \/ CreateInsert(p)
  \/ CreateCalendarEvent(p)
  \/ CreateAttach(p)
  \/ CreateRollback(p)

(***************************************************************************)
(* AppointmentService.editAppointment                                      *)
(***************************************************************************)
StartEdit(p, id, data) ==
  /\ Free(p)
  /\ Set(p, [Idle EXCEPT !.pc = "e_find", !.op = "edit", !.appointmentId = id,
                         !.data = data])
  /\ UNCHANGED <<store, stamps, nextId, calendar, nextEventId, now>>

EditFindWithoutCheck(p) ==
  LET r == inv[p]
  IN /\ At(p, "e_find")
     /\ Set(p, [r EXCEPT !.appointment = IF r.appointmentId \in DOMAIN store
                                         THEN store[r.appointmentId] ELSE NoAppointment,
                         !.pc = "e_update"])
     /\ UNCHANGED <<store, stamps, nextId, calendar, nextEventId, now>>

\* lines 84-87: findById
EditFind(p) ==
  LET r == inv[p]
  IN /\ At(p, "e_find")
     /\ IF FindById(store, r.appointmentId) = NoAppointment
        THEN Set(p, Finish(r, NotFound))
        ELSE Set(p, [r EXCEPT !.appointment = FindById(store, r.appointmentId),
                              !.pc = IF r.data.startAt # NoTime /\ r.data.endAt # NoTime
                                     THEN "e_check" ELSE "e_update"])
     /\ UNCHANGED <<store, stamps, nextId, calendar, nextEventId, now>>

\* lines 90-109: conflict check against the other records
EditCheck(p) ==
  LET r == inv[p]
      conflicts == GetConflictingAppointments(store, r.data.startAt, r.data.endAt,
                                              r.appointmentId)
  IN /\ At(p, "e_check")
     /\ IF conflicts # {}
        THEN Set(p, [Finish(r, TimeSlotUnavailable) EXCEPT
                       !.message = ConflictMessage(store, conflicts, r.appointment.email,
                                                   r.appointment.phoneNumber)])
        ELSE Set(p, [r EXCEPT !.pc = "e_update"])
     /\ UNCHANGED <<store, stamps, nextId, calendar, nextEventId, now>>

AllowedUpdatesAsNewRequest(appointment, data) ==
  [appointment EXCEPT
     !.startAt = IF data.startAt # NoTime THEN data.startAt ELSE @,
     !.endAt = IF data.endAt # NoTime THEN data.endAt ELSE @,
     !.type = IF data.type # Undefined THEN data.type ELSE @,
     !.status = "scheduled", !.calendarEventId = NoId]

\* lines 111-130: the loaded record with only the allowed fields replaced
AllowedUpdates(appointment, data) ==
  [appointment EXCEPT
     !.startAt = IF data.startAt # NoTime THEN data.startAt ELSE @,
     !.endAt = IF data.endAt # NoTime THEN data.endAt ELSE @,
     !.type = IF data.type # Undefined THEN data.type ELSE @]

HasCalendarEventAlways(appointment) == TRUE

\* lines 136 and 171: if (appointment.calendarEventId)
HasCalendarEvent(appointment) == appointment.calendarEventId # NoId

\* line 133: repository.update; a throw leaves editAppointment
EditUpdate(p) ==
  LET r == inv[p]
      id == r.appointmentId
      updated == AllowedUpdates(r.appointment, r.data)
  IN /\ At(p, "e_update")
     /\ \E fault \in BOOLEAN :
          LET err == IF fault THEN ConnectionError ELSE UpdateError(store, id, updated)
              r1 == [r EXCEPT !.dbFault = fault]
          IN IF err = "none"
             THEN /\ store' = [store EXCEPT ![id] = UpdatedRow(store[id], updated)]
                  /\ stamps' = [stamps EXCEPT ![id] = StampOfUpdate(@, now)]
                  /\ Set(p, IF HasCalendarEvent(r.appointment)
                            THEN [r1 EXCEPT !.pc = "e_calendar", !.outcome = "ok"]
                            ELSE Finish(r1, "ok"))
             ELSE /\ Set(p, Finish(r1, err))
                  /\ UNCHANGED <<store, stamps>>
     /\ UNCHANGED <<nextId, calendar, nextEventId, now>>

EditCalendarEventRollingBack(p) ==
  LET r == inv[p]
      id == r.appointmentId
  IN /\ At(p, "e_calendar")
     /\ \/ /\ Set(p, [Finish(r, "ok") EXCEPT !.calendarCall = "ok"])
           /\ UNCHANGED <<store, stamps>>
        \/ /\ Set(p, [Finish(r, CalendarEventFailed) EXCEPT !.calendarCall = "failed"])
           /\ store' = IF id \in DOMAIN store
                       THEN [store EXCEPT ![id] = UpdatedRow(store[id], r.appointment)]
                       ELSE store
           /\ stamps' = IF id \in DOMAIN store
                        THEN [stamps EXCEPT ![id] = StampOfUpdate(@, now)]
                        ELSE stamps
     /\ UNCHANGED <<nextId, calendar, nextEventId, now>>

\* lines 136-150: calendarService.updateCalendarEvent, a failure is logged
EditCalendarEvent(p) ==
  LET r == inv[p]
  IN /\ At(p, "e_calendar")
     /\ \E ok \in BOOLEAN :
          Set(p, [Finish(r, "ok") EXCEPT !.calendarCall = IF ok THEN "ok" ELSE "failed",
                                         !.eventId = r.appointment.calendarEventId])
     /\ UNCHANGED <<store, stamps, nextId, calendar, nextEventId, now>>

Edit(p) ==
  \/ \E id \in KnownIds, data \in EditRequests : StartEdit(p, id, data)
  \/ EditFind(p)
  \/ EditCheck(p)
  \/ EditUpdate(p)
  \/ EditCalendarEvent(p)

(***************************************************************************)
(* AppointmentService.cancelAppointment                                    *)
(***************************************************************************)
StartCancel(p, id) ==
  /\ Free(p)
  /\ Set(p, [Idle EXCEPT !.pc = "x_find", !.op = "cancel", !.appointmentId = id])
  /\ UNCHANGED <<store, stamps, nextId, calendar, nextEventId, now>>

CancelFindWaiting(p) ==
  LET r == inv[p]
  IN /\ At(p, "x_find")
     /\ \A q \in Procs \ {p} : inv[q].pc \in {"idle", "done", "returned"}
     /\ IF FindById(store, r.appointmentId) = NoAppointment
        THEN Set(p, Finish(r, NotFound))
        ELSE Set(p, [r EXCEPT !.appointment = FindById(store, r.appointmentId),
                              !.pc = "x_validate"])
     /\ UNCHANGED <<store, stamps, nextId, calendar, nextEventId, now>>

\* lines 156-159: findById
CancelFind(p) ==
  LET r == inv[p]
  IN /\ At(p, "x_find")
     /\ IF FindById(store, r.appointmentId) = NoAppointment
        THEN Set(p, Finish(r, NotFound))
        ELSE Set(p, [r EXCEPT !.appointment = FindById(store, r.appointmentId),
                              !.pc = "x_validate"])
     /\ UNCHANGED <<store, stamps, nextId, calendar, nextEventId, now>>

TooCloseInclusive(startAt, t) == startAt - t <= CancellationLeadHours * MinutesPerHour

\* lines 192-196: hoursUntilAppointment < 2
TooClose(startAt, t) == startAt - t < CancellationLeadHours * MinutesPerHour

CancellationErrorOfCancelledOnly(appointment, t) ==
  IF appointment.status = "cancelled" THEN "Appointment is already cancelled"
  ELSE IF TooClose(appointment.startAt, t)
       THEN "Cannot cancel appointments less than 2 hours before start time"
  ELSE "none"

\* lines 183-200: validateAppointmentCanBeCancelled, "none" when it returns
CancellationError(appointment, t) ==
  IF appointment.status = "cancelled" THEN "Appointment is already cancelled"
  ELSE IF appointment.status = "completed" THEN "Cannot cancel completed appointments"
  ELSE IF TooClose(appointment.startAt, t)
       THEN "Cannot cancel appointments less than 2 hours before start time"
  ELSE "none"

\* lines 162-165: validation, then the copy is marked cancelled
CancelValidate(p) ==
  LET r == inv[p]
      reason == CancellationError(r.appointment, now)
  IN /\ At(p, "x_validate")
     /\ IF reason # "none"
        THEN Set(p, [Finish(r, AppointmentCancellation) EXCEPT
                       !.message = reason, !.validatedAt = now])
        ELSE Set(p, [r EXCEPT !.pc = "x_update", !.validatedAt = now,
                              !.appointment = [r.appointment EXCEPT !.status = "cancelled"]])
     /\ UNCHANGED <<store, stamps, nextId, calendar, nextEventId, now>>

CancelUpdateThenCalendar(p) ==
  LET r == inv[p]
      id == r.appointmentId
  IN /\ At(p, "x_update")
     /\ \E fault \in BOOLEAN :
          LET err == IF fault THEN ConnectionError ELSE UpdateError(store, id, r.appointment)
          IN IF err = "none"
             THEN /\ store' = [store EXCEPT ![id] = UpdatedRow(store[id], r.appointment)]
                  /\ stamps' = [stamps EXCEPT ![id] = StampOfUpdate(@, now)]
                  /\ Set(p, IF HasCalendarEvent(r.appointment)
                            THEN [r EXCEPT !.pc = "x_calendar", !.outcome = "ok"]
                            ELSE Finish(r, "ok"))
             ELSE /\ Set(p, [r EXCEPT !.pc = "x_calendar", !.dbFault = fault,
                                       !.outcome = err])
                  /\ UNCHANGED <<store, stamps>>
     /\ UNCHANGED <<nextId, calendar, nextEventId, now>>

\* line 168: repository.update; a throw leaves cancelAppointment
CancelUpdate(p) ==
  LET r == inv[p]
      id == r.appointmentId
  IN /\ At(p, "x_update")
     /\ \E fault \in BOOLEAN :
          LET err == IF fault THEN ConnectionError ELSE UpdateError(store, id, r.appointment)
          IN IF err = "none"
             THEN /\ store' = [store EXCEPT ![id] = UpdatedRow(store[id], r.appointment)]
                  /\ stamps' = [stamps EXCEPT ![id] = StampOfUpdate(@, now)]
                  /\ Set(p, IF HasCalendarEvent(r.appointment)
                            THEN [r EXCEPT !.pc = "x_calendar", !.outcome = "ok"]
                            ELSE Finish(r, "ok"))
             ELSE /\ Set(p, Finish([r EXCEPT !.dbFault = fault], err))
                  /\ UNCHANGED <<store, stamps>>
     /\ UNCHANGED <<nextId, calendar, nextEventId, now>>

CancelCalendarEventRollingBack(p) ==
  LET r == inv[p]
      id == r.appointmentId
      eventId == r.appointment.calendarEventId
  IN /\ At(p, "x_calendar")
     /\ \/ /\ calendar' = calendar \ {eventId}
           /\ Set(p, [Finish(r, "ok") EXCEPT !.calendarCall = "ok"])
           /\ UNCHANGED <<store, stamps>>
        \/ /\ UNCHANGED calendar
           /\ Set(p, [Finish(r, CalendarEventFailed) EXCEPT !.calendarCall = "failed"])
           /\ store' = IF id \in DOMAIN store
                       THEN [store EXCEPT ![id].status = "scheduled"]
                       ELSE store
           /\ stamps' = IF id \in DOMAIN store
                        THEN [stamps EXCEPT ![id] = StampOfUpdate(@, now)]
                        ELSE stamps
     /\ UNCHANGED <<nextId, nextEventId, now>>

\* lines 171-178: calendarService.deleteCalendarEvent, a failure is logged
CancelCalendarEvent(p) ==
  LET r == inv[p]
      eventId == r.appointment.calendarEventId
  IN /\ At(p, "x_calendar")
     /\ \/ /\ calendar' = calendar \ {eventId}
           /\ Set(p, [Finish(r, "ok") EXCEPT !.calendarCall = "ok", !.eventId = eventId])
        \/ /\ UNCHANGED calendar
           /\ Set(p, [Finish(r, "ok") EXCEPT !.calendarCall = "failed",
                                             !.eventId = eventId])
     /\ UNCHANGED <<store, stamps, nextId, nextEventId, now>>

Cancel(p) ==
  \/ \E id \in KnownIds : StartCancel(p, id)
  \/ CancelFind(p)
  \/ CancelValidate(p)
  \/ CancelUpdate(p)
  \/ CancelCalendarEvent(p)

(***************************************************************************)
(* AppointmentService.getActiveAppointmentsByEmailOrPhone                  *)
(***************************************************************************)
Contacts == {"john@example.com", "+0987654321"}

ActiveMatchesOfAnyStatus(st, value) ==
  { i \in DOMAIN st : st[i].email = value \/ st[i].phoneNumber = value }

\* WHERE (email = $1 OR phone_number = $1) AND status IN ('scheduled', 'confirmed')
ActiveMatches(st, value) ==
  { i \in DOMAIN st :
      /\ st[i].email = value \/ st[i].phoneNumber = value
      /\ IsActive(st[i].status) }

\* ORDER BY start_at: the orders the query may return the ids in, rows with equal
\* start_at in either order.
OrderedByStart(st, ids) ==
  { seq \in [1..Cardinality(ids) -> ids] :
      /\ \A i, j \in 1..Cardinality(ids) : i # j => seq[i] # seq[j]
      /\ \A i, j \in 1..Cardinality(ids) : i < j => st[seq[i]].startAt <= st[seq[j]].startAt }

\* The ids of the rows the query returns, in the order it returns them.
GetActiveAppointmentsByEmailOrPhone(st, value) ==
  OrderedByStart(st, ActiveMatches(st, value))

StartFind(p, value) ==
  /\ Free(p)
  /\ Set(p, [Idle EXCEPT !.pc = "f_query", !.op = "find", !.contact = value])
  /\ UNCHANGED <<store, stamps, nextId, calendar, nextEventId, now>>

\* line 25: the repository query
FindQuery(p) ==
  LET r == inv[p]
  IN /\ At(p, "f_query")
     /\ \E rows \in GetActiveAppointmentsByEmailOrPhone(store, r.contact) :
          Set(p, [Finish(r, "ok") EXCEPT !.result = rows])
     /\ UNCHANGED <<store, stamps, nextId, calendar, nextEventId, now>>

Find(p) ==
  \/ \E value \in Contacts : StartFind(p, value)
  \/ FindQuery(p)

(***************************************************************************)
(* ScheduleHandlers.handleCheckBookedSlots                                 *)
(***************************************************************************)
\* Date.prototype.toISOString for the four-digit years: the instant in digits,
\* most significant first, at a fixed width.
ToISOString(time) == [i \in 1..4 |-> (time \div (10 ^ (4 - i))) % 10]

\* a < b on strings: the first differing character decides
StringLess(a, b) ==
  \E k \in 1..Len(a) : /\ a[k] < b[k]
                       /\ \A j \in 1..(k - 1) : a[j] = b[j]

\* What calendarService.getBookedSlotsForDate answers: no slot, one, or two
\* that touch.
BookedSlotSets ==
  { {},
    {[start |-> FirstSlot, end |-> FirstSlot + SlotMinutes]},
    {[start |-> FirstSlot, end |-> FirstSlot + SlotMinutes],
     [start |-> FirstSlot + SlotMinutes, end |-> FirstSlot + 2 * SlotMinutes]} }

InSlotInclusive(checkTimeUTC, slot) ==
  /\ ~StringLess(checkTimeUTC, ToISOString(slot.start))
  /\ ~StringLess(ToISOString(slot.end), checkTimeUTC)

\* lines 132-137: checkTimeUTC >= slotStart && checkTimeUTC < slotEnd
InSlot(checkTimeUTC, slot) ==
  /\ ~StringLess(checkTimeUTC, ToISOString(slot.start))
  /\ StringLess(checkTimeUTC, ToISOString(slot.end))

\* The handler for a valid dateStr: the slots the calendar answers, and
\* available when the instant is in none of them.
CheckBookedSlots(p) ==
  /\ Free(p)
  /\ \E dateStr \in Times, bookedSlots \in BookedSlotSets :
       Set(p, [Finish([Idle EXCEPT !.op = "check"], "ok") EXCEPT
                 !.dateStr = dateStr, !.bookedSlots = bookedSlots,
                 !.available = ~(\E slot \in bookedSlots :
                                   InSlot(ToISOString(dateStr), slot))])
  /\ UNCHANGED <<store, stamps, nextId, calendar, nextEventId, now>>

Next ==
  \/ Tick
  \/ \E p \in Procs : Create(p)
  \/ \E p \in Procs : Edit(p)
  \/ \E p \in Procs : Cancel(p)
  \/ \E p \in Procs : Find(p)
  \/ \E p \in Procs : Return(p)

Spec == Init /\ [][Next]_vars

\* The check of booked slots reads the calendar's answer only and writes
\* nothing the service's operations read: its requests are taken on their own.
SlotsNext ==
  \/ \E p \in Procs : CheckBookedSlots(p)
  \/ \E p \in Procs : Return(p)

SlotsSpec == Init /\ [][SlotsNext]_vars

\* The next step of invocation p once it has started: the continuation that runs
\* when the store or calendar call it awaits has answered.
Step(p) ==
  \/ CreateCheck(p) \/ CreateInsert(p) \/ CreateCalendarEvent(p)
  \/ CreateAttach(p) \/ CreateRollback(p)
  \/ EditFind(p) \/ EditCheck(p) \/ EditUpdate(p) \/ EditCalendarEvent(p)
  \/ CancelFind(p) \/ CancelValidate(p) \/ CancelUpdate(p) \/ CancelCalendarEvent(p)
  \/ FindQuery(p)

\* Every call an invocation awaits answers, with success or failure.
LiveSpec == Spec /\ \A p \in Procs : WF_vars(Step(p))

(***************************************************************************)
(* Properties.                                                             *)
(***************************************************************************)
\* p takes the step that ends its invocation.
Finishes(p) == inv[p].pc \notin {"done", "returned"} /\ inv'[p].pc = "done"

\* Some active record other than id overlaps [startAt, endAt).
ActiveOverlap(st, id, startAt, endAt) ==
  \E i \in DOMAIN st \ {id} :
    /\ st[i].status \in {"scheduled", "confirmed"}
    /\ st[i].startAt < endAt
    /\ st[i].endAt > startAt

\* C1: in every reachable state no two records whose status is scheduled or
\* confirmed have overlapping intervals (A.start < B.end and A.end > B.start).
C1_NoActiveOverlap ==
  \A i \in DOMAIN store :
    store[i].status \in {"scheduled", "confirmed"}
      => ~ActiveOverlap(store, i, store[i].startAt, store[i].endAt)

\* C2: a create or a reschedule that has passed its conflict check and whose
\* write reaches the store while an active record overlaps its interval leaves
\* the store unchanged and ends with the error kind of the pre-check.
C2_LateWriteIsSlotConflict ==
  [][\A p \in Procs :
       LET r == inv[p]
           written == IF r.pc = "c_insert" THEN r.appointment
                      ELSE AllowedUpdates(r.appointment, r.data)
       IN (/\ \/ r.pc = "c_insert"
              \/ r.pc = "e_update" /\ r.data.startAt # NoTime /\ r.data.endAt # NoTime
           /\ inv'[p].pc # r.pc
           /\ ~inv'[p].dbFault
           /\ ActiveOverlap(store, r.appointmentId, written.startAt, written.endAt))
          => (store' = store /\ inv'[p].outcome = TimeSlotUnavailable)]_vars

\* C3: a createAppointment whose calendar create failed ends with the calendar
\* failure error, and once its compensating delete has succeeded the store
\* holds no record with the id the request was given.
C3_SyncFailureRollsBack ==
  \A p \in Procs :
    (inv[p].pc = "done" /\ inv[p].op = "create" /\ inv[p].calendarCall = "failed")
      => /\ inv[p].outcome = CalendarEventFailed
         /\ inv[p].rollback = "deleted" => inv[p].appointmentId \notin DOMAIN store

C3_Witness ==
  \E p \in Procs :
    /\ inv[p].pc = "done" /\ inv[p].op = "create"
    /\ inv[p].calendarCall = "failed" /\ inv[p].rollback = "deleted"
    /\ inv[p].outcome = CalendarEventFailed
    /\ inv[p].appointmentId # NoId /\ inv[p].appointmentId \notin DOMAIN store

\* C4: a record whose status is cancelled or completed keeps that status in
\* every later state, whatever operation steps.
C4_TerminalStatusIsFinal ==
  [][\A i \in DOMAIN store :
       (store[i].status \in {"cancelled", "completed"} /\ i \in DOMAIN store')
         => store'[i].status = store[i].status]_vars

\* Some active record's interval ends where [startAt, endAt) starts, or starts
\* where it ends.
TouchesActive(st, startAt, endAt) ==
  \E i \in DOMAIN st :
    /\ st[i].status \in {"scheduled", "confirmed"}
    /\ st[i].endAt = startAt \/ st[i].startAt = endAt

\* C5: a createAppointment that runs alone, with the store and the calendar
\* responding, ends with the slot-conflict error exactly when an active record
\* overlaps the requested interval, and ends in success when the interval
\* overlaps no active record and touches one at a boundary.
C5_SequentialCreate ==
  [][\A p \in Procs :
       LET r == inv[p]
           conflict == ActiveOverlap(store, r.appointmentId, r.data.startAt, r.data.endAt)
       IN (/\ r.op = "create" /\ Finishes(p)
           /\ \A q \in Procs \ {p} : inv[q].pc = "idle"
           /\ ~inv'[p].dbFault
           /\ inv'[p].calendarCall # "failed")
          => /\ inv'[p].outcome = TimeSlotUnavailable <=> conflict
             /\ (~conflict /\ TouchesActive(store, r.data.startAt, r.data.endAt))
                  => inv'[p].outcome = "ok"]_vars

\* C6: cancelAppointment on a loaded record that is scheduled or confirmed is
\* rejected with the cancellation error exactly when start - now is less than
\* 120 minutes at validation; otherwise it goes on to cancel the record.
C6_TwoHourRule ==
  [][\A p \in Procs :
       LET r == inv[p]
       IN (/\ r.pc = "x_validate" /\ inv'[p].pc # "x_validate"
           /\ r.appointment.status \in {"scheduled", "confirmed"})
          => /\ inv'[p].outcome = AppointmentCancellation
                  <=> r.appointment.startAt - now < 120
             /\ ~(r.appointment.startAt - now < 120)
                  => /\ inv'[p].pc = "x_update"
                     /\ inv'[p].appointment.status = "cancelled"]_vars

\* A cancel rejected at 119 minutes before start, and one accepted and committed at
\* exactly 120 minutes before start.
C6_Witness ==
  \E p, q \in Procs :
    /\ inv[p].pc = "done" /\ inv[p].op = "cancel"
    /\ inv[p].outcome = AppointmentCancellation
    /\ inv[p].message = "Cannot cancel appointments less than 2 hours before start time"
    /\ inv[p].appointmentId \in DOMAIN store
    /\ store[inv[p].appointmentId].startAt - inv[p].validatedAt = 119
    /\ inv[q].op = "cancel" /\ inv[q].outcome = "ok" /\ inv[q].pc = "x_calendar"
    /\ inv[q].appointment.startAt - inv[q].validatedAt = 120
    /\ store[inv[q].appointmentId].status = "cancelled"

\* C7: cancelAppointment loads the stored record, and when its status is cancelled
\* or completed it ends with the cancellation error, however far off the start is.
C7_TerminalCancelRejected ==
  [][\A p \in Procs :
       LET r == inv[p]
       IN /\ (r.pc = "x_find" /\ inv'[p].pc = "x_validate")
             => inv'[p].appointment = store[r.appointmentId]
          /\ (/\ r.pc = "x_validate" /\ inv'[p].pc # "x_validate"
              /\ r.appointment.status \in {"cancelled", "completed"})
             => /\ inv'[p].pc = "done"
                /\ inv'[p].outcome = AppointmentCancellation
                /\ store' = store]_vars

C7_Witness ==
  \E p \in Procs :
    /\ inv[p].pc = "done" /\ inv[p].op = "cancel"
    /\ inv[p].outcome = AppointmentCancellation
    /\ inv[p].message = "Cannot cancel completed appointments"
    /\ store[inv[p].appointmentId].status = "completed"
    /\ store[inv[p].appointmentId].startAt - inv[p].validatedAt >= 120

\* C8: a createAppointment has called the calendar only after its record was
\* inserted and given an id, and has not called it when the conflict check or
\* the insert failed.
C8_StoreBeforeCalendar ==
  \A p \in Procs :
    inv[p].op = "create"
      => /\ inv[p].pc = "c_calendar"
              => /\ inv[p].appointmentId \in DOMAIN store
                 /\ inv[p].appointment.id = inv[p].appointmentId
         /\ inv[p].calendarCall # "none"
              => /\ inv[p].appointmentId # NoId
                 /\ inv[p].appointmentId < nextId
                 /\ inv[p].appointmentId \in DOMAIN store \/ inv[p].rollback = "deleted"
         /\ (inv[p].pc = "done" /\ inv[p].outcome \notin {"ok", CalendarEventFailed})
              => /\ inv[p].calendarCall = "none"
                 /\ inv[p].appointmentId = NoId

\* The calendar has been called for a record the store holds, and another create
\* ended at its insert without a call.
C8_Witness ==
  \E p, q \in Procs :
    /\ inv[p].op = "create" /\ inv[p].pc = "c_attach" /\ inv[p].calendarCall = "ok"
    /\ inv[p].appointmentId \in DOMAIN store
    /\ inv[q].op = "create" /\ inv[q].pc = "done" /\ inv[q].outcome = UniqueViolation
    /\ inv[q].calendarCall = "none"

\* C9: when createAppointment returns a record, its calendar create succeeded, it
\* ran no compensating delete, and the store holds the record with the event id
\* the calendar returned.
C9_SuccessMeansAttached ==
  [][\A p \in Procs :
       (/\ inv[p].op = "create" /\ inv[p].outcome = "ok"
        /\ inv[p].pc = "done" /\ inv'[p].pc = "returned")
         => /\ inv[p].calendarCall = "ok"
            /\ inv[p].rollback = "none"
            /\ inv[p].eventId # NoId
            /\ inv[p].appointmentId \in DOMAIN store
            /\ store[inv[p].appointmentId].calendarEventId = inv[p].eventId]_vars

\* C10: a createAppointment whose calendar create failed and whose compensating
\* delete failed too ends with the calendar failure error, and its record is
\* still in the store.
C10_FailedRollbackLeavesOrphan ==
  \A p \in Procs :
    (/\ inv[p].pc = "done" /\ inv[p].op = "create"
     /\ inv[p].calendarCall = "failed" /\ inv[p].rollback = "failed")
      => /\ inv[p].outcome = CalendarEventFailed
         /\ inv[p].appointmentId \in DOMAIN store

C10_Witness ==
  \E p \in Procs :
    /\ inv[p].pc = "done" /\ inv[p].op = "create"
    /\ inv[p].calendarCall = "failed" /\ inv[p].rollback = "failed"
    /\ inv[p].outcome = CalendarEventFailed
    /\ inv[p].appointmentId \in DOMAIN store
    /\ store[inv[p].appointmentId].calendarEventId = NoId

\* p's store update of an edit succeeds in this step.
EditWrites(p) == inv[p].pc = "e_update" /\ inv'[p].outcome = "ok"

C12_MissingRecordIsNotFound ==
  [][\A p \in Procs :
       LET r == inv[p]
       IN (/\ r.pc \in {"e_find", "x_find"} /\ inv'[p].pc # r.pc
           /\ r.appointmentId \notin DOMAIN store)
          => /\ inv'[p].pc = "done"
             /\ inv'[p].outcome = NotFound
             /\ inv'[p].calendarCall = "none"
             /\ store' = store
             /\ calendar' = calendar]_vars

C12_Witness ==
  \E p, q \in Procs :
    /\ inv[p].op = "edit" /\ inv[p].pc = "done" /\ inv[p].outcome = NotFound
    /\ inv[p].appointmentId \notin DOMAIN store /\ inv[p].calendarCall = "none"
    /\ inv[q].op = "cancel" /\ inv[q].pc = "done" /\ inv[q].outcome = NotFound
    /\ inv[q].appointmentId \notin DOMAIN store /\ inv[q].calendarCall = "none"

\* C13: an editAppointment that supplies a new start and end and runs alone
\* ends its conflict check with the slot-conflict error exactly when an active
\* record other than its own overlaps the new interval, and ends in success
\* when its own active record is the only one the new interval overlaps.
C13_EditExcludesItself ==
  [][\A p \in Procs :
       LET r == inv[p]
           id == r.appointmentId
           other == ActiveOverlap(store, id, r.data.startAt, r.data.endAt)
       IN (/\ r.op = "edit" /\ r.data.startAt # NoTime /\ r.data.endAt # NoTime
           /\ \A q \in Procs \ {p} : inv[q].pc = "idle"
           /\ inv'[p].pc # r.pc)
          => /\ r.pc = "e_check" => (inv'[p].outcome = TimeSlotUnavailable <=> other)
             /\ (/\ r.pc = "e_update" /\ ~inv'[p].dbFault
                 /\ ~other
                 /\ store[id].status \in {"scheduled", "confirmed"}
                 /\ store[id].startAt < r.data.endAt
                 /\ store[id].endAt > r.data.startAt)
                => inv'[p].outcome = "ok"]_vars

\* C14: when the calendar update of an editAppointment fails, the invocation
\* still ends in success and the step leaves the store as the update wrote it;
\* run alone, the record then has the interval and type the request supplied.
C14_EditSurvivesCalendarFailure ==
  [][\A p \in Procs :
       LET r == inv[p]
           id == r.appointmentId
       IN (r.pc = "e_calendar" /\ inv'[p].calendarCall = "failed")
          => /\ inv'[p].pc = "done"
             /\ inv'[p].outcome = "ok"
             /\ store' = store
             /\ (\A q \in Procs \ {p} : inv[q].pc = "idle")
                  => /\ r.data.startAt # NoTime => store'[id].startAt = r.data.startAt
                     /\ r.data.endAt # NoTime => store'[id].endAt = r.data.endAt
                     /\ r.data.type # Undefined => store'[id].type = r.data.type]_vars

\* An edit whose calendar update failed has ended in success, and John's record
\* has the start it moved to.
C14_Witness ==
  \E p \in Procs :
    /\ inv[p].op = "edit" /\ inv[p].pc = "done" /\ inv[p].outcome = "ok"
    /\ inv[p].calendarCall = "failed"
    /\ inv[p].appointmentId = 1
    /\ \A q \in Procs \ {p} : inv[q].pc = "idle"
    /\ store[1].firstName = "John" /\ store[1].status = "scheduled"
    /\ store[1].startAt = FirstSlot + SlotMinutes

\* C15: when the calendar delete of a cancelAppointment fails, the invocation
\* still ends in success and the step leaves the store as the update wrote it;
\* run alone, the record's stored status is then cancelled.
C15_CancelSurvivesCalendarFailure ==
  [][\A p \in Procs :
       LET r == inv[p]
       IN (r.pc = "x_calendar" /\ inv'[p].calendarCall = "failed")
          => /\ inv'[p].pc = "done"
             /\ inv'[p].outcome = "ok"
             /\ store' = store
             /\ (\A q \in Procs \ {p} : inv[q].pc = "idle")
                  => store'[r.appointmentId].status = "cancelled"]_vars

\* A cancel whose calendar delete failed has ended in success: the record is
\* cancelled and its event is still in the calendar.
C15_Witness ==
  \E p \in Procs :
    /\ inv[p].op = "cancel" /\ inv[p].pc = "done" /\ inv[p].outcome = "ok"
    /\ inv[p].calendarCall = "failed"
    /\ store[inv[p].appointmentId].status = "cancelled"
    /\ store[inv[p].appointmentId].calendarEventId \in calendar

\* C16: an editAppointment or cancelAppointment whose store update succeeded
\* goes on to its calendar call exactly when the record it loaded has a
\* calendar event id; the call is made for that id (a successful delete removes
\* that event), and no other step of the two operations calls the calendar.
C16_CalendarCallFollowsReference ==
  [][\A p \in Procs :
       LET r == inv[p]
           ref == r.appointment.calendarEventId
       IN (r.op \in {"edit", "cancel"} /\ inv'[p].pc # r.pc)
          => /\ (r.pc \in {"e_update", "x_update"} /\ inv'[p].outcome = "ok")
                  => /\ inv'[p].pc \in {"e_calendar", "x_calendar"} <=> ref # NoId
                     /\ ref = NoId => inv'[p].pc = "done"
             /\ r.pc \in {"e_calendar", "x_calendar"}
                  => /\ ref # NoId
                     /\ inv'[p].calendarCall # "none"
                     /\ inv'[p].eventId = ref
                     /\ (r.pc = "x_calendar" /\ inv'[p].calendarCall = "ok")
                          => calendar' = calendar \ {ref}
             /\ r.pc \notin {"e_calendar", "x_calendar"}
                  => /\ inv'[p].calendarCall = "none"
                     /\ calendar' = calendar]_vars

\* An edit of a record that a create had inserted and not yet given its event id
\* has ended in success without a calendar call.
C16_Witness ==
  \E p, q \in Procs :
    /\ inv[p].op = "edit" /\ inv[p].pc = "done" /\ inv[p].outcome = "ok"
    /\ inv[p].calendarCall = "none" /\ inv[p].eventId = NoId
    /\ inv[q].op = "create" /\ inv[q].appointmentId = inv[p].appointmentId

\* C17: an invocation that ends in an error has left the store as it found it.
\* An editAppointment or cancelAppointment writes to the store only in the step
\* that makes it a success, and a success stays one; a createAppointment that
\* ends in an error either never inserted its record or inserted only that
\* record and then deleted exactly it, unless the compensating delete failed;
\* run alone from an initial store, such an invocation ends in an initial store.
C17_ErrorLeavesStore ==
  [][\A p \in Procs :
       LET r == inv[p]
           id == inv'[p].appointmentId
       IN inv'[p] # r
          => /\ (r.op \in {"edit", "cancel"} /\ store' # store)
                  => inv'[p].outcome = "ok"
             /\ (r.op \in {"edit", "cancel"} /\ r.outcome = "ok" /\ inv'[p].pc = "done")
                  => inv'[p].outcome = "ok"
             /\ (r.op = "create" /\ store' # store)
                  => \/ /\ r.pc = "c_insert"
                        /\ id \notin DOMAIN store
                        /\ DOMAIN store' = DOMAIN store \cup {id}
                        /\ \A j \in DOMAIN store : store'[j] = store[j]
                     \/ /\ r.pc = "c_attach"
                        /\ inv'[p].outcome = "ok"
                     \/ /\ r.pc = "c_rollback"
                        /\ DOMAIN store' = DOMAIN store \ {id}
                        /\ \A j \in DOMAIN store' : store'[j] = store[j]
             /\ (r.op = "create" /\ Finishes(p) /\ inv'[p].outcome # "ok")
                  => \/ id = NoId /\ store' = store
                     \/ inv'[p].rollback = "deleted" /\ id \notin DOMAIN store'
                     \/ inv'[p].rollback = "failed"
             /\ (/\ Finishes(p) /\ inv'[p].outcome # "ok" /\ inv'[p].rollback # "failed"
                 /\ \A q \in Procs \ {p} : inv[q].pc = "idle")
                  => store' \in InitialStores]_vars

\* A create whose attach update failed after the calendar event was created has
\* ended in an error, and the store is empty as it was.
C17_Witness ==
  \E p \in Procs :
    /\ \A q \in Procs \ {p} : inv[q].pc = "idle"
    /\ inv[p].op = "create" /\ inv[p].pc = "done"
    /\ inv[p].outcome = CalendarEventFailed
    /\ inv[p].calendarCall = "ok" /\ inv[p].rollback = "deleted"
    /\ inv[p].appointmentId # NoId
    /\ nextId > 1
    /\ store = EmptyStore

\* C18: the query for a contact's active appointments returns no record whose
\* stored status is cancelled or completed at the time of the query.
C18_FindReturnsNoTerminalRecord ==
  [][\A p \in Procs :
       (inv[p].pc = "f_query" /\ inv'[p].pc = "done")
         => \A k \in DOMAIN inv'[p].result :
              /\ inv'[p].result[k] \in DOMAIN store
              /\ store[inv'[p].result[k]].status \notin {"cancelled", "completed"}]_vars

\* A cancel of John's record has committed, and a query for John's address made
\* after it has returned nothing.
C18_Witness ==
  \E p, q \in Procs :
    /\ inv[q].op = "cancel" /\ inv[q].outcome = "ok"
    /\ store[inv[q].appointmentId].status = "cancelled"
    /\ store[inv[q].appointmentId].email = "john@example.com"
    /\ inv[p].op = "find" /\ inv[p].pc = "done" /\ inv[p].contact = "john@example.com"
    /\ inv[p].result = <<>>

\* C19: the query for a contact's active appointments returns exactly the
\* scheduled and confirmed records whose email or phone is the contact, each
\* once, ordered by start, latest first.
C19_FindExactDescending ==
  [][\A p \in Procs :
       LET r == inv[p]
           rows == inv'[p].result
       IN (r.pc = "f_query" /\ inv'[p].pc = "done")
          => /\ {rows[k] : k \in DOMAIN rows}
                  = {i \in DOMAIN store :
                       /\ store[i].status \in {"scheduled", "confirmed"}
                       /\ store[i].email = r.contact \/ store[i].phoneNumber = r.contact}
             /\ \A k, l \in DOMAIN rows : k # l => rows[k] # rows[l]
             /\ \A k, l \in DOMAIN rows :
                  k < l => store[rows[k]].startAt >= store[rows[l]].startAt]_vars

\* C20: in every reachable store and for every interval and excluded id, the
\* conflict query returns exactly the scheduled and confirmed records that
\* start before the interval's end and end after its start, the excluded one
\* left out; it returns no cancelled or completed record and none that only
\* touches the interval.
C20_FindConflictingExact ==
  \A startAt \in Times, endAt \in Times, excludeId \in {NoId} \cup DOMAIN store :
    LET found == GetConflictingAppointments(store, startAt, endAt, excludeId)
    IN /\ found = {i \in DOMAIN store :
                     /\ store[i].status \in {"scheduled", "confirmed"}
                     /\ store[i].startAt < endAt
                     /\ store[i].endAt > startAt
                     /\ excludeId = NoId \/ i # excludeId}
       /\ \A i \in found :
            /\ store[i].status \notin {"cancelled", "completed"}
            /\ store[i].endAt # startAt
            /\ store[i].startAt # endAt

\* A create has passed its conflict check for an interval that a cancelled record
\* covers and a scheduled record touches; the scheduled record is found for its
\* own interval, and is not when it is the excluded id.
C20_Witness ==
  \E p \in Procs :
    /\ inv[p].op = "create" /\ inv[p].pc = "c_insert"
    /\ inv[p].data.startAt = FirstSlot /\ inv[p].data.endAt = FirstSlot + SlotMinutes
    /\ DOMAIN store = {1, 2}
    /\ store[1].status = "cancelled"
    /\ store[1].startAt = FirstSlot /\ store[1].endAt = FirstSlot + 2 * SlotMinutes
    /\ store[2].status = "scheduled" /\ store[2].startAt = FirstSlot + SlotMinutes
    /\ GetConflictingAppointments(store, FirstSlot, FirstSlot + SlotMinutes, NoId) = {}
    /\ GetConflictingAppointments(store, FirstSlot + SlotMinutes,
                                  FirstSlot + 2 * SlotMinutes, NoId) = {2}
    /\ GetConflictingAppointments(store, FirstSlot + SlotMinutes,
                                  FirstSlot + 2 * SlotMinutes, 2) = {}

\* C21: a store update for an id the store holds no record of, the store
\* responding, ends the invocation with the not-found error and leaves the
\* store unchanged.
C21_UpdateOfMissingIsNotFound ==
  [][\A p \in Procs :
       LET r == inv[p]
       IN (/\ r.pc \in {"e_update", "x_update"} /\ inv'[p].pc # r.pc
           /\ ~inv'[p].dbFault
           /\ r.appointmentId \notin DOMAIN store)
          => (inv'[p].outcome = NotFound /\ store' = store)]_vars

\* C22: in every reachable store, deleting an id that has a record returns true
\* and removes that record and no other; deleting an id that has none returns
\* false and changes nothing; a second delete of the same id changes nothing
\* more, and findById of the id then gives the not-found value.
C22_DeleteIdempotent ==
  \A id \in 1..MaxAppointments :
    LET once == DeleteRow(store, id)
    IN /\ id \in DOMAIN store
            => /\ DeleteReturns(store, id)
               /\ DOMAIN once = DOMAIN store \ {id}
               /\ \A j \in DOMAIN once : once[j] = store[j]
       /\ id \notin DOMAIN store
            => /\ ~DeleteReturns(store, id)
               /\ once = store
       /\ ~DeleteReturns(once, id)
       /\ DeleteRow(once, id) = once
       /\ FindById(once, id) = NoAppointment

\* A create's rollback has deleted its record, and an edit that looked the id up
\* afterwards got the not-found error.
C22_Witness ==
  \E p, q \in Procs :
    /\ inv[p].op = "create" /\ inv[p].rollback = "deleted"
    /\ inv[p].appointmentId # NoId /\ inv[p].appointmentId \notin DOMAIN store
    /\ inv[q].op = "edit" /\ inv[q].pc = "done" /\ inv[q].outcome = NotFound
    /\ inv[q].appointmentId = inv[p].appointmentId
    /\ FindById(store, inv[p].appointmentId) = NoAppointment
    /\ ~DeleteReturns(store, inv[p].appointmentId)

\* C23: the entity createAppointment builds has no id, no calendar event id and
\* status scheduled, the record its insert persists has status scheduled, and
\* either store implementation would persist status scheduled for that entity
\* whatever status it carried.
C23_CreatePersistsScheduled ==
  [][\A p \in Procs :
       LET r == inv[p]
       IN (r.pc = "c_insert" /\ inv'[p].pc = "c_calendar")
          => /\ r.appointment.id = NoId
             /\ r.appointment.calendarEventId = NoId
             /\ r.appointment.status = "scheduled"
             /\ store'[inv'[p].appointmentId].status = "scheduled"
             /\ \A status \in AppointmentStatus :
                  LET carried == [r.appointment EXCEPT !.status = status]
                  IN /\ InsertedRow(nextId, carried).status = "scheduled"
                     /\ SupabaseInsertedRow(nextId, carried).status = "scheduled"]_vars

C25_EveryFailureHasItsCode ==
  \A p \in Procs :
    (inv[p].pc = "done" /\ inv[p].outcome # "ok" /\ ~inv[p].dbFault)
      => /\ HandleApiError(inv[p].outcome).handled
         /\ HandleApiError(inv[p].outcome).code = inv[p].outcome

\* C26: a record's id and createdAt never change once the insert assigned
\* them, and every write to a record (attaching the calendar event, an edit, a
\* cancel) sets its updatedAt to the time of that write.
C26_IdentityKeptAndUpdateStamped ==
  [][/\ DOMAIN stamps' = DOMAIN store'
     /\ \A id \in DOMAIN store' \ DOMAIN store :
          /\ store'[id].id = id
          /\ stamps'[id] = [createdAt |-> now, updatedAt |-> NeverUpdated]
     /\ \A id \in DOMAIN store \cap DOMAIN store' :
          /\ store'[id].id = store[id].id
          /\ stamps'[id].createdAt = stamps[id].createdAt
          /\ store'[id] # store[id] => stamps'[id].updatedAt = now
          /\ \A p \in Procs :
               (/\ inv[p].pc \in {"c_attach", "e_update", "x_update"}
                /\ inv'[p].pc \in {"done", "e_calendar", "x_calendar"}
                /\ inv'[p].outcome = "ok"
                /\ inv[p].appointment.id = id)
               => stamps'[id].updatedAt = now]_vars

\* A record created at one time has been cancelled at a later one.
C26_Witness ==
  \E id \in DOMAIN store :
    /\ store[id].status = "cancelled"
    /\ stamps[id].updatedAt = now
    /\ stamps[id].createdAt < now
    /\ \E p \in Procs : inv[p].op = "cancel" /\ inv[p].pc = "done" /\ inv[p].outcome = "ok"
                        /\ inv[p].appointmentId = id

\* C27: a stored record gets a calendar event id only from the update that
\* follows a successful createCalendarEvent for that record, and it is the id
\* that call returned: the insert writes none, no request supplies one, and
\* every id a record carries is one the calendar has issued.
C27_ReferenceOnlyFromSync ==
  [][/\ \A id \in DOMAIN store :
          store[id].calendarEventId # NoId => store[id].calendarEventId < nextEventId
     /\ \A id \in DOMAIN store' \ DOMAIN store : store'[id].calendarEventId = NoId
     /\ \A p \in Procs :
          (inv[p].pc = "c_check" /\ inv'[p].pc = "c_insert")
            => inv'[p].appointment.calendarEventId = NoId
     /\ \A id \in DOMAIN store \cap DOMAIN store' :
          LET ref == store'[id].calendarEventId
          IN (ref # NoId /\ ref # store[id].calendarEventId)
             => \E p \in Procs :
                  /\ inv[p].op = "create" /\ inv[p].pc = "c_attach"
                  /\ inv'[p].pc = "done" /\ inv'[p].outcome = "ok"
                  /\ inv[p].calendarCall = "ok"
                  /\ inv[p].appointment.id = id
                  /\ inv[p].eventId = ref
                  /\ ref \in calendar]_vars

\* A create has attached to its record the event id the calendar returned, which
\* is not the record's own id.
C27_Witness ==
  \E p \in Procs :
    /\ inv[p].op = "create" /\ inv[p].pc = "done" /\ inv[p].outcome = "ok"
    /\ inv[p].appointmentId \in DOMAIN store
    /\ store[inv[p].appointmentId].calendarEventId = inv[p].eventId
    /\ inv[p].eventId \in calendar
    /\ inv[p].eventId # inv[p].appointmentId

\* C28: every stored record ends after it starts, whatever creates and edits
\* have run, an edit that gives only a new start or only a new end included.
C28_EndsAfterStart ==
  \A id \in DOMAIN store : store[id].endAt > store[id].startAt

\* An edit that moved only one end of the interval, past the other end, was
\* turned down by the table's check, and the record is as it was.
C28_Witness ==
  \E p \in Procs :
    /\ inv[p].op = "edit" /\ inv[p].pc = "done" /\ ~inv[p].dbFault
    /\ inv[p].outcome = CheckViolation
    /\ inv[p].appointmentId \in DOMAIN store
    /\ store[inv[p].appointmentId].endAt > store[inv[p].appointmentId].startAt

\* C29: once a cancel has committed for a record, a create for exactly that
\* record's interval, no active record overlapping it, inserts its record.
C29_CancelledSlotIsFree ==
  [][\A p \in Procs :
       LET r == inv[p]
       IN (/\ r.pc = "c_insert" /\ inv'[p].pc # "c_insert" /\ ~inv'[p].dbFault
           /\ GetConflictingAppointments(store, r.appointment.startAt,
                                         r.appointment.endAt, NoId) = {}
           /\ \E q \in Procs :
                /\ inv[q].op = "cancel" /\ inv[q].pc = "done" /\ inv[q].outcome = "ok"
                /\ inv[q].appointmentId \in DOMAIN store
                /\ store[inv[q].appointmentId].status = "cancelled"
                /\ store[inv[q].appointmentId].startAt = r.appointment.startAt
                /\ store[inv[q].appointmentId].endAt = r.appointment.endAt)
          => /\ inv'[p].pc = "c_calendar"
             /\ nextId \in DOMAIN store']_vars

\* C30: for every interval and excluded id, in either store implementation,
\* isAvailable is true exactly when getConflictingAppointments returns nothing,
\* and the two implementations find the same conflicts.
C30_AvailableIffNoConflict ==
  \A startAt \in Times, endAt \in Times, excludeId \in {NoId} \cup (1..MaxAppointments) :
    startAt < endAt
      => /\ IsAvailable(store, startAt, endAt, excludeId)
              <=> (GetConflictingAppointments(store, startAt, endAt, excludeId) = {})
         /\ SupabaseGetConflictingAppointments(store, startAt, endAt, excludeId)
              = GetConflictingAppointments(store, startAt, endAt, excludeId)
         /\ SupabaseIsAvailable(store, startAt, endAt, excludeId)
              <=> (SupabaseGetConflictingAppointments(store, startAt, endAt, excludeId) = {})

\* C31: a create or an edit that fails on a conflict fails with the one slot
\* conflict kind; its message is the requester-directed one exactly when some
\* active record overlapping the requested interval (the edited record
\* excepted) has the requester's email or phone, an absent one never matching,
\* and the generic one otherwise.  For an edit the requester is the record
\* being edited.
C31_ConflictMessage ==
  [][\A p \in Procs :
       LET r == inv[p]
           who == IF r.op = "create" THEN r.data ELSE r.appointment
           same == \E i \in DOMAIN store :
                     /\ store[i].status \in {"scheduled", "confirmed"}
                     /\ store[i].startAt < r.data.endAt
                     /\ store[i].endAt > r.data.startAt
                     /\ (r.op = "edit" => i # r.appointmentId)
                     /\ \/ who.email \notin {Undefined, ""} /\ store[i].email = who.email
                        \/ /\ who.phoneNumber \notin {Undefined, ""}
                           /\ store[i].phoneNumber = who.phoneNumber
       IN (r.pc \in {"c_check", "e_check"} /\ inv'[p].pc = "done")
          => /\ inv'[p].outcome = TimeSlotUnavailable
             /\ inv'[p].message = (IF same THEN "You already have an appointment"
                                           ELSE "already booked")
             /\ r.op = "edit" /\ r.appointmentId \in DOMAIN store
                  => /\ who.email = store[r.appointmentId].email
                     /\ who.phoneNumber = store[r.appointmentId].phoneNumber]_vars

\* One request was turned down with the requester-directed message and another
\* with the generic one, both as slot conflicts.
C31_Witness ==
  \E p, q \in Procs :
    /\ inv[p].pc = "done" /\ inv[p].outcome = TimeSlotUnavailable
    /\ inv[p].message = "You already have an appointment"
    /\ inv[q].pc = "done" /\ inv[q].outcome = TimeSlotUnavailable
    /\ inv[q].message = "already booked"

\* C32: the check of booked slots answers available = false exactly when the
\* instant asked about is at or after the start and before the end of some
\* slot the calendar returned: an instant at a slot's start is unavailable, and
\* an instant at a slot's end is available unless another slot holds it.
C32_AvailableIsHalfOpen ==
  \A p \in Procs :
    (inv[p].op = "check" /\ inv[p].pc = "done")
      => LET t == inv[p].dateStr
             slots == inv[p].bookedSlots
             held == \E slot \in slots : slot.start <= t /\ t < slot.end
         IN /\ inv[p].available = ~held
            /\ (\E slot \in slots : t = slot.start) => inv[p].available = FALSE
            /\ ((\E slot \in slots : t = slot.end) /\ ~(\E slot \in slots : t = slot.start))
                 => inv[p].available = TRUE

\* The check answered available for the instant at which the only booked slot
\* ends, and another check answered unavailable for the instant at which it starts.
C32_Witness ==
  \E p, q \in Procs :
    /\ inv[p].op = "check" /\ inv[p].pc = "done" /\ inv[p].available = TRUE
    /\ Cardinality(inv[p].bookedSlots) = 1
    /\ \E slot \in inv[p].bookedSlots : inv[p].dateStr = slot.end
    /\ inv[q].op = "check" /\ inv[q].pc = "done" /\ inv[q].available = FALSE
    /\ \E slot \in inv[q].bookedSlots : inv[q].dateStr = slot.start

\* C33: a started create, edit or cancel always has its next step to take,
\* whatever the other invocation is doing, each step moves it forward through
\* its own steps, never back to one it has taken, and, every awaited call
\* answering, it completes with a result or an error.
InFlight(p) == inv[p].pc \notin {"idle", "done", "returned"}

Rank(pc) ==
  CASE pc \in {"idle"} -> 0
    [] pc \in {"c_check", "e_find", "x_find", "f_query"} -> 1
    [] pc \in {"c_insert", "e_check", "x_validate"} -> 2
    [] pc \in {"c_calendar", "e_update", "x_update"} -> 3
    [] pc \in {"c_attach", "e_calendar", "x_calendar"} -> 4
    [] pc \in {"c_rollback"} -> 5
    [] pc \in {"done"} -> 6
    [] OTHER -> 7

C33_NeverWaits ==
  \A p \in Procs : InFlight(p) => ENABLED Step(p)

C33_NeverGoesBack ==
  [][\A p \in Procs : inv'[p].pc # inv[p].pc => Rank(inv'[p].pc) > Rank(inv[p].pc)]_vars

C33_Completes ==
  \A p \in Procs :
    (inv[p].op \in {"create", "edit", "cancel"} /\ InFlight(p))
      ~> (inv[p].pc = "done" /\ inv[p].outcome # "pending")

C33_InvocationCompletes == []C33_NeverWaits /\ C33_NeverGoesBack /\ C33_Completes

\* A create has run through its compensation to its error while a cancel ran
\* to its result.
C33_Witness ==
  \E p, q \in Procs :
    /\ inv[p].op = "create" /\ inv[p].pc = "done" /\ inv[p].rollback # "none"
    /\ inv[p].outcome = CalendarEventFailed
    /\ inv[q].op = "cancel" /\ inv[q].pc = "done" /\ inv[q].outcome = "ok"
    /\ inv[q].calendarCall # "none"

\* C34: a calendar event id a record carries is never removed or replaced by a
\* step of an edit or a cancel, whatever the interleaving.
C34_ReferenceKept ==
  [][\A id \in DOMAIN store \cap DOMAIN store' :
       \A p \in Procs :
         (/\ inv[p].op \in {"edit", "cancel"} /\ inv'[p] # inv[p]
          /\ store[id].calendarEventId # NoId)
         => store'[id].calendarEventId = store[id].calendarEventId]_vars

\* C35: when every invocation has run to its end, no calendar call of theirs
\* has failed, and no record is completed (a status no engine operation
\* gives), the events in the calendar are exactly the event ids the scheduled
\* and confirmed records carry.
C35_StoreAndCalendarAgree ==
  (/\ \A p \in Procs : inv[p].pc \in {"idle", "done"} /\ inv[p].calendarCall # "failed"
   /\ \A id \in DOMAIN store : store[id].status # "completed")
    => calendar = { store[id].calendarEventId :
                      id \in {i \in DOMAIN store : /\ store[i].status \in ActiveStatuses
                                                   /\ store[i].calendarEventId # NoId} }

\* C36: a create that ends in an error leaves no calendar event of its own
\* making: the event it created, if any, is gone when the error is returned.
C36_FailedCreateLeavesNoEvent ==
  \A p \in Procs :
    (inv[p].op = "create" /\ inv[p].pc = "done" /\ inv[p].outcome # "ok")
      => (inv[p].eventId = NoId \/ inv[p].eventId \notin calendar)

\* C37: the update of a cancel changes the record's status and updatedAt only:
\* the interval, the type and the calendar event id stored after it are those
\* stored just before it.
C37_CancelWritesOnlyStatus ==
  [][\A p \in Procs :
       LET id == inv[p].appointmentId
       IN (/\ inv[p].pc = "x_update" /\ inv'[p].pc # "x_update"
           /\ inv'[p].outcome = "ok" /\ id \in DOMAIN store)
          => /\ store'[id].status = "cancelled"
             /\ store'[id].startAt = store[id].startAt
             /\ store'[id].endAt = store[id].endAt
             /\ store'[id].type = store[id].type
             /\ store'[id].calendarEventId = store[id].calendarEventId]_vars

\* C38: an edit or a cancel calls the calendar only from the step that follows
\* its own successful update; when its update fails it ends with that error,
\* has made no calendar call, and the calendar is as it was.
C38_CalendarAfterUpdate ==
  [][\A p \in Procs :
       LET r == inv[p]
       IN r.op \in {"edit", "cancel"}
          => /\ (/\ inv'[p].pc # "returned"
                 /\ \/ inv'[p].calendarCall # r.calendarCall
                    \/ (inv'[p] # r /\ calendar' # calendar))
                  => (r.pc \in {"e_calendar", "x_calendar"} /\ r.outcome = "ok")
             /\ (r.pc \in {"e_update", "x_update"}
                 /\ inv'[p].pc \in {"e_calendar", "x_calendar"})
                  => /\ inv'[p].outcome = "ok" /\ ~inv'[p].dbFault
                     /\ r.appointmentId \in DOMAIN store'
                     /\ store'[r.appointmentId].status = r.appointment.status
                     /\ stamps'[r.appointmentId].updatedAt = now
             /\ (r.pc \in {"e_update", "x_update"} /\ inv'[p].pc = "done"
                 /\ inv'[p].outcome # "ok")
                  => /\ calendar' = calendar
                     /\ inv'[p].calendarCall = "none"
                     /\ store' = store]_vars

\* A cancel whose update failed has ended with the error without calling the
\* calendar: its record is still active and its event is still there.
C38_Witness ==
  \E p \in Procs :
    /\ inv[p].op = "cancel" /\ inv[p].pc = "done" /\ inv[p].dbFault
    /\ inv[p].outcome = ConnectionError /\ inv[p].calendarCall = "none"
    /\ inv[p].appointmentId \in DOMAIN store
    /\ store[inv[p].appointmentId].status \in ActiveStatuses
    /\ store[inv[p].appointmentId].calendarEventId \in calendar

\* C39: of two cancels of the same record at most one succeeds, the other
\* being turned down as a cancellation that is not allowed, and the calendar's
\* delete is called for the record's event at most once.
C39_OneCancelSucceeds ==
  \A p, q \in Procs :
    (/\ p # q
     /\ inv[p].op = "cancel" /\ inv[q].op = "cancel"
     /\ inv[p].appointmentId = inv[q].appointmentId
     /\ inv[p].pc = "done" /\ inv[q].pc = "done"
     /\ ~inv[p].dbFault /\ ~inv[q].dbFault
     /\ inv[p].outcome = "ok")
      => /\ inv[q].outcome = AppointmentCancellation
         /\ ~(inv[p].calendarCall # "none" /\ inv[q].calendarCall # "none")

====
